---- MODULE Spec2Model ----
(***************************************************************************)
(* FdTransport (python/tvm/micro/transport/fd.py): a Transport that reads  *)
(* and writes a pair of non-blocking file descriptors with timeouts.       *)
(*                                                                         *)
(* One transport instance and the operating system around it.  The         *)
(* instance reads descriptor 3 and writes descriptor 4 (two half-duplex    *)
(* pipes to a peer, topo = "pipes"), or reads and writes descriptor 3 (one *)
(* full-duplex socket to a peer, topo = "socket"), or holds both ends of   *)
(* one pipe (topo = "loop"): what it writes to descriptor 4 is what it     *)
(* reads from descriptor 3.  The peer is the environment: it sends bytes,  *)
(* drains bytes and closes its ends.                                       *)
(*                                                                         *)
(* A call runs in steps, one per blocking point or system call; pc is the  *)
(* position of the instance inside its current call.                       *)
(***************************************************************************)
EXTENDS Integers, Sequences, FiniteSets, TLC

\* ---------------------------------------------------------------- bounds
MaxLen == 3        \* longest payload handed to write()
MaxN == 2          \* largest n handed to read()
Cap == 2           \* bytes a pipe or socket buffer holds
MaxTime == 1       \* last instant of the monotonic clock
MaxTimeout == 1    \* largest timeout_sec handed to read() or write()
MaxCloses == 2     \* os.close() calls counted per descriptor

\* ---------------------------------------------------------------- values
Fd == {3, 4}
Bytes == {1, 2}
None == -1         \* Python's None, where the other values are integers

Min(a, b) == IF a < b THEN a ELSE b
Max(a, b) == IF a > b THEN a ELSE b

\* the payloads handed to write(): <<1, 2, .., l>>, every byte of a payload
\* distinct, so that a byte lost, repeated or out of order shows
RECURSIVE Iota(_)
Iota(l) == IF l = 0 THEN <<>> ELSE Append(Iota(l - 1), l)

Payloads == {Iota(l) : l \in 0 .. MaxLen}
Timeouts == {None} \cup (0 .. MaxTimeout)

\* s[k:], Python's slice from index k (0-based) to the end
SliceFrom(s, k) == SubSeq(s, k + 1, Len(s))
\* s[:k]
SliceTo(s, k) == SubSeq(s, 1, k)

SeqToSet(s) == {s[k] : k \in 1 .. Len(s)}

VARIABLES
    \* the operating system
    topo,        \* "pipes", "socket" or "loop"
    now,         \* time.monotonic()
    fdopen,      \* fdopen[f]: descriptor f of the process is open
    fdflags,     \* fdflags[f]: the status flags F_GETFL reports
    inbuf,       \* bytes the peer sent and the instance has not read
    outbuf,      \* bytes the instance wrote and nobody has read
    peer_open,   \* the peer holds its ends of inbuf and outbuf
    \* the instance
    read_fd, write_fd,
    \* the call in progress and its locals
    pc, op, n, end_time, data, data_len, aw, sel, result,
    \* history variables
    timed,       \* the current call was given a timeout_sec
    payload,     \* the data argument of the current write()
    sent,        \* bytes the OS accepted from the current write(), in order
    closes,      \* closes[f]: os.close(f) calls made by the instance
    staleIO,     \* a wait or an I/O syscall was issued on a released descriptor
    nwait,       \* select() calls issued by the current call
    nsys,        \* os.read()/os.write() calls issued by the current call
    zero,        \* the current call's read/write syscall returned zero bytes
    eio,         \* an os.close() of the current call reported an I/O error
    rt           \* progress of a round trip through the loop

osvars == <<topo, now, fdopen, fdflags, inbuf, outbuf, peer_open>>
selfvars == <<read_fd, write_fd>>
callvars == <<pc, op, n, end_time, data, data_len, aw, sel, result>>
histvars == <<timed, payload, sent, closes, staleIO, nwait, nsys, zero, eio, rt>>
vars == <<osvars, selfvars, callvars, histvars>>

\* ------------------------------------------------- the operating system
\* the kernel object behind each descriptor number
RdObj == 3
WrObj == IF topo = "socket" THEN 3 ELSE 4
\* the bytes the read side delivers, and whether their writer still holds
\* its end
InChan == IF topo = "loop" THEN outbuf ELSE inbuf
InWriterOpen == IF topo = "loop" THEN fdopen[4] ELSE peer_open
\* whether the reader of what the instance writes still holds its end
OutReaderOpen == IF topo = "loop" THEN fdopen[3] ELSE peer_open

Readable(f) == f = RdObj /\ (InChan # <<>> \/ ~InWriterOpen)
Writable(f) == f = WrObj /\ (Len(outbuf) < Cap \/ ~OutReaderOpen)

NoResult == [kind |-> "none", val |-> None]
\* no select() yet in this call
NoSel == [timeout |-> None, until |-> None, ret |-> FALSE]
Ret(v) == [kind |-> "ret", val |-> v]
Raise(e) == [kind |-> e, val |-> None]

Init ==
    /\ topo \in {"pipes", "socket", "loop"}
    /\ now = 0
    /\ fdopen = [f \in Fd |-> f = 3 \/ topo # "socket"]
    /\ fdflags \in [Fd -> {{}, {"O_NONBLOCK"}}]
    /\ topo = "socket" => fdflags[4] = {}
    /\ inbuf = <<>>
    /\ outbuf = <<>>
    /\ peer_open = (topo # "loop")
    /\ read_fd = None
    /\ write_fd = None
    /\ pc = "new"
    /\ op = "none"
    /\ n = None
    /\ end_time = None
    /\ data = <<>>
    /\ data_len = None
    /\ aw = None
    /\ sel = NoSel
    /\ result = NoResult
    /\ timed = FALSE
    /\ payload = <<>>
    /\ sent = <<>>
    /\ closes = [f \in Fd |-> 0]
    /\ staleIO = FALSE
    /\ nwait = 0
    /\ nsys = 0
    /\ zero = FALSE
    /\ eio = FALSE
    /\ rt = "none"

\* ------------------------------------------------------ construction
\* fcntl.fcntl(fd, F_SETFL, arg): sets the status flags and returns 0
fcntl_setfl_ret == {}

\* a slip in the test: the early return for a non-blocking descriptor is
\* never taken, F_SETFL is issued for every descriptor
validate_configure_fd_always_set(fl, fd) ==
    LET flag == fl[fd]
        fl2 == [fl EXCEPT ![fd] = flag \cup {"O_NONBLOCK"}]
        flag2 == fcntl_setfl_ret
    IN  [flags |-> fl2, raised |-> ~("O_NONBLOCK" \in flag2)]

\* _validate_configure_fd(fd) on flags fl (fl[f]: the flags of descriptor f):
\* the flags it leaves and whether it raises FdConfigurationError
validate_configure_fd(fl, fd) ==
    LET flag == fl[fd]
    IN  IF "O_NONBLOCK" \in flag
        THEN [flags |-> fl, raised |-> FALSE]
        ELSE LET fl2 == [fl EXCEPT ![fd] = flag \cup {"O_NONBLOCK"}]
                 flag2 == fcntl_setfl_ret
             IN  [flags |-> fl2, raised |-> ~("O_NONBLOCK" \in flag2)]

\* FdTransport(read_fd, write_fd)
Construct(rfd, wfd) ==
    /\ pc = "new"
    /\ LET v1 == validate_configure_fd(fdflags, rfd)
           v2 == validate_configure_fd(v1.flags, wfd)
       IN  IF v1.raised
           THEN /\ fdflags' = v1.flags
                /\ result' = Raise("FdConfigurationError")
                /\ UNCHANGED <<read_fd, write_fd, pc>>
           ELSE IF v2.raised
           THEN /\ fdflags' = v2.flags
                /\ result' = Raise("FdConfigurationError")
                /\ UNCHANGED <<read_fd, write_fd, pc>>
           ELSE /\ fdflags' = v2.flags
                /\ read_fd' = rfd
                /\ write_fd' = wfd
                /\ pc' = "idle"
                /\ result' = Ret(None)
    /\ op' = "init"
    /\ UNCHANGED <<topo, now, fdopen, inbuf, outbuf, peer_open>>
    /\ UNCHANGED <<n, end_time, data, data_len, aw, sel>>
    /\ UNCHANGED histvars

\* ------------------------------------------------------------- close()
\* os.close(f) inside close(): st is [open, closes, raised], the descriptors
\* of the process, the calls counted and whether an exception is already
\* propagating; err: this call reports an I/O error (the descriptor is
\* released all the same)
os_close(st, f, err) ==
    IF st.raised \/ f = None
    THEN st
    ELSE [open |-> [st.open EXCEPT ![f] = FALSE],
          closes |-> [st.closes EXCEPT ![f] = @ + 1],
          raised |-> ~st.open[f] \/ err,
          eio |-> err]

\* self.close(); cfail: which os.close() reports an I/O error (0: none,
\* 1: the read descriptor's, 2: the write descriptor's)
close_fds(cfail) ==
    LET st0 == [open |-> fdopen, closes |-> closes, raised |-> FALSE,
                eio |-> FALSE]
        st1 == os_close(st0, read_fd, cfail = 1)
    IN  os_close(st1, write_fd, cfail = 2)

\* both descriptors of the instance are released
Released == pc # "new" /\ ~fdopen[read_fd] /\ ~fdopen[write_fd]

\* both descriptors of the instance are held
Held == pc # "new" /\ fdopen[read_fd] /\ fdopen[write_fd]

\* ------------------------------------------------- round-trip history
\* rt follows one payload from write() to the read() that follows it on the
\* other end of the loop: "writing" (a write() with a timeout began on the
\* empty pipe, both descriptors held), "written" (it returned), "reading"
\* (the next call is a read() with a timeout), "done" (that read() ended).
\* Any other call ends the trip.
RtOnCall(kind, timeout_sec) ==
    IF /\ kind = "write" /\ timeout_sec # None
       /\ topo = "loop" /\ outbuf = <<>> /\ Held
    THEN "writing"
    ELSE IF kind = "read" /\ timeout_sec # None /\ rt = "written"
    THEN "reading"
    ELSE "none"

\* the current call ends with outcome res
RtOnEnd(res) ==
    IF rt = "writing" THEN (IF res.kind = "ret" THEN "written" ELSE "none")
    ELSE IF rt = "reading" THEN "done"
    ELSE rt

\* a call begins: the history of the call before is forgotten
CallReset ==
    /\ staleIO' = FALSE
    /\ nwait' = 0
    /\ nsys' = 0
    /\ zero' = FALSE
    /\ sel' = NoSel
    /\ eio' = FALSE

\* a slip in open(): it takes the descriptors of the instance as live again
open_reopening ==
    /\ pc = "idle"
    /\ op' = "open"
    /\ result' = Ret(None)
    /\ rt' = RtOnCall("open", None)
    /\ fdopen' = [f \in Fd |-> fdopen[f] \/ f \in {read_fd, write_fd}]
    /\ UNCHANGED <<topo, now, fdflags, inbuf, outbuf, peer_open>>
    /\ UNCHANGED selfvars
    /\ UNCHANGED <<pc, n, end_time, data, data_len, aw, sel>>
    /\ UNCHANGED <<timed, payload, sent, closes, staleIO, nwait, nsys, zero, eio>>

\* open()
open ==
    /\ pc = "idle"
    /\ op' = "open"
    /\ result' = Ret(None)
    /\ rt' = RtOnCall("open", None)
    /\ UNCHANGED <<osvars, selfvars>>
    /\ UNCHANGED <<pc, n, end_time, data, data_len, aw, sel>>
    /\ UNCHANGED <<timed, payload, sent, closes, staleIO, nwait, nsys, zero, eio>>

\* close()
close(cfail) ==
    /\ pc = "idle"
    /\ LET st == close_fds(cfail)
       IN  /\ \A f \in Fd : st.closes[f] <= MaxCloses
           /\ fdopen' = st.open
           /\ closes' = st.closes
           /\ eio' = st.eio
           /\ result' = IF st.raised THEN Raise("OSError") ELSE Ret(None)
    /\ op' = "close"
    /\ rt' = RtOnCall("close", None)
    /\ UNCHANGED <<topo, now, fdflags, inbuf, outbuf, peer_open>>
    /\ UNCHANGED selfvars
    /\ UNCHANGED <<pc, n, end_time, data, data_len, aw, sel>>
    /\ UNCHANGED <<timed, payload, sent, staleIO, nwait, nsys, zero>>

\* ------------------------------------------------------ _await_ready()
\* the arguments of a call _await_ready(rlist, wlist, timeout_sec, end_time)
AwaitArgs(rl, wl, ts, et) ==
    [rlist |-> rl, wlist |-> wl, timeout_sec |-> ts, end_time |-> et]

\* a slip in read(): a missing timeout is taken as the timeout 0, as in
\* `time.monotonic() + (timeout_sec or 0)`
read_await_args_or_zero(et) ==
    AwaitArgs(<<read_fd>>, <<>>, None, IF et = None THEN now ELSE et)

\* a slip in read(): the arguments handed over by position, as write() does
read_await_args_positional(et) == AwaitArgs(et, <<>>, <<read_fd>>, None)

\* read()'s call: self._await_ready([self.read_fd], [], end_time=end_time)
read_await_args(et) == AwaitArgs(<<read_fd>>, <<>>, None, et)

\* write()'s call: self._await_ready(end_time, [], [self.write_fd]); the
\* arguments are bound by position, end_time keeps its default
write_await_args(et) == AwaitArgs(et, <<>>, <<write_fd>>, None)

\* a slip in the timeout: `end_time - time.monotonic()`, not clamped
remaining_time_signed(et) == et - now

\* max(0, end_time - time.monotonic())
remaining_time(et) == Max(0, et - now)

\* the first part of _await_ready: return at once without a deadline, else
\* work out the timeout and enter select.select()
AwaitReady ==
    /\ pc = "await"
    /\ IF aw.end_time = None
       THEN /\ pc' = "sys"
            /\ UNCHANGED <<sel, nwait, staleIO>>
       ELSE LET ts == IF aw.timeout_sec = None
                      THEN remaining_time(aw.end_time)
                      ELSE aw.timeout_sec
                watched == SeqToSet(aw.rlist \o aw.wlist)
            IN  /\ pc' = "select"
                /\ sel' = [timeout |-> ts, until |-> now + ts, ret |-> FALSE]
                /\ nwait' = nwait + 1
                /\ staleIO' = (staleIO \/ \E f \in watched : ~fdopen[f])
    /\ UNCHANGED <<osvars, selfvars>>
    /\ UNCHANGED <<op, n, end_time, data, data_len, aw, result>>
    /\ UNCHANGED <<timed, payload, sent, closes, nsys, zero, eio, rt>>

\* the locals of a call are gone when it ends
CallEnd(res) ==
    /\ pc' = "idle"
    /\ result' = res
    /\ rt' = RtOnEnd(res)
    /\ end_time' = None
    /\ data_len' = None
    /\ data' = <<>>
    /\ aw' = None

\* a slip in the test: `if not rlist and not wlist:`, xlist forgotten
nothing_ready_rw(r, w, x) == r = {} /\ w = {}

\* `if not rlist and not wlist and not xlist:` on what select() returned
nothing_ready(r, w, x) == r = {} /\ w = {} /\ x = {}

\* select.select(rlist, wlist, rlist + wlist, timeout) returns, and the rest
\* of _await_ready; exc: the descriptors with an exceptional condition pending
Select(exc) ==
    /\ pc = "select"
    /\ LET rl == SeqToSet(aw.rlist)
           wl == SeqToSet(aw.wlist)
           r == {f \in rl : Readable(f)}
           w == {f \in wl : Writable(f)}
           x == {f \in rl \cup wl : f \in exc}
       IN  IF \E f \in rl \cup wl : ~fdopen[f]
           THEN \* EBADF
                /\ CallEnd(Raise("OSError"))
                /\ sel' = sel
           ELSE IF nothing_ready(r, w, x)
           THEN \* select returned when the timeout was over
                /\ (r = {} /\ w = {} /\ x = {}) => now >= sel.until
                /\ CallEnd(Raise("IoTimeoutError"))
                /\ sel' = [sel EXCEPT !.ret = (x # {})]
           ELSE /\ pc' = "sys"
                /\ sel' = [sel EXCEPT !.ret = (x # {})]
                /\ UNCHANGED <<result, rt, end_time, data_len, data, aw>>
    /\ UNCHANGED <<osvars, selfvars>>
    /\ UNCHANGED <<op, n>>
    /\ UNCHANGED <<timed, payload, sent, closes, staleIO, nwait, nsys, zero, eio>>

\* ------------------------------------------------------------- read()
\* read(n, timeout_sec) up to its call of _await_ready
read(nn, timeout_sec) ==
    /\ pc = "idle"
    /\ timeout_sec # None => now + timeout_sec <= MaxTime
    /\ LET et == IF timeout_sec = None THEN None ELSE now + timeout_sec
       IN  /\ end_time' = et
           /\ aw' = read_await_args(et)
    /\ pc' = "await"
    /\ op' = "read"
    /\ n' = nn
    /\ data' = <<>>
    /\ data_len' = None
    /\ result' = NoResult
    /\ timed' = (timeout_sec # None)
    /\ payload' = IF rt = "written" THEN payload ELSE <<>>
    /\ sent' = <<>>
    /\ CallReset
    /\ rt' = RtOnCall("read", timeout_sec)
    /\ UNCHANGED <<osvars, selfvars, closes>>

\* os.read(fd, nn): the error it raises ("" for none) and the bytes it
\* returns
os_read(fd, nn) ==
    IF ~fdopen[fd] \/ fd # RdObj THEN [err |-> "EBADF", bytes |-> <<>>]
    ELSE IF InChan # <<>>
    THEN [err |-> "", bytes |-> SliceTo(InChan, Min(nn, Len(InChan)))]
    ELSE IF InWriterOpen THEN [err |-> "EAGAIN", bytes |-> <<>>]
    ELSE [err |-> "", bytes |-> <<>>]

\* the read side delivered k bytes
Consume(k) ==
    IF topo = "loop"
    THEN outbuf' = SliceFrom(outbuf, k) /\ inbuf' = inbuf
    ELSE inbuf' = SliceFrom(inbuf, k) /\ outbuf' = outbuf

\* a slip in the test: `if to_return:`
is_eof_inverted(to_return) == to_return # <<>>

\* `if not to_return:`
is_eof(to_return) == to_return = <<>>

\* read() from os.read() to its end
OsRead(cfail) ==
    /\ pc = "sys" /\ op = "read"
    /\ LET got == os_read(read_fd, n)
           to_return == got.bytes
           st == close_fds(cfail)
           res == IF got.err = "EBADF" THEN Raise("OSError")
                  ELSE IF got.err = "EAGAIN" THEN Raise("BlockingIOError")
                  ELSE IF is_eof(to_return)
                  THEN (IF st.raised THEN Raise("OSError")
                        ELSE Raise("TransportClosedError"))
                  ELSE Ret(to_return)
       IN  /\ CallEnd(res)
           /\ staleIO' = (staleIO \/ ~fdopen[read_fd])
           /\ zero' = (got.err = "" /\ to_return = <<>>)
           /\ Consume(Len(to_return))
           /\ IF got.err = "" /\ is_eof(to_return)
              THEN /\ \A f \in Fd : st.closes[f] <= MaxCloses
                   /\ fdopen' = st.open
                   /\ closes' = st.closes
                   /\ eio' = st.eio
              ELSE /\ cfail = 0
                   /\ UNCHANGED <<fdopen, closes, eio>>
    /\ nsys' = nsys + 1
    /\ UNCHANGED <<topo, now, fdflags, peer_open>>
    /\ UNCHANGED selfvars
    /\ UNCHANGED <<op, n, sel>>
    /\ UNCHANGED <<timed, payload, sent, nwait>>

\* ------------------------------------------------------------ write()
\* a slip in the loop: the written prefix is not dropped
remaining_same(d, num_written) == d

\* a slip in the slice: data[num_written + 1:]
remaining_skip(d, num_written) == SliceFrom(d, num_written + 1)

\* data[num_written:]
remaining(d, num_written) == SliceFrom(d, num_written)

\* a slip in the call: os.write(self.write_fd, <the whole payload>)
write_arg_whole == payload

\* the buffer handed to os.write()
write_arg == data

\* a slip in the return: `return len(data)`, the length of what is left
write_return_left(dl) == 0

\* the value write() returns
write_return(dl) == dl

\* the head of the loop `while data:` with d the unsent bytes: the call of
\* _await_ready, or the return
WriteLoop(d, et, dl) ==
    IF d # <<>>
    THEN /\ pc' = "await"
         /\ aw' = write_await_args(et)
         /\ result' = NoResult
         /\ end_time' = et
         /\ data_len' = dl
         /\ rt' = IF pc = "idle" THEN RtOnCall("write", et) ELSE rt
    ELSE /\ pc' = "idle"
         /\ aw' = None
         /\ result' = Ret(write_return(dl))
         /\ end_time' = None
         /\ data_len' = None
         /\ rt' = IF pc = "idle"
                  THEN (IF RtOnCall("write", et) = "writing"
                        THEN "written" ELSE "none")
                  ELSE RtOnEnd(Ret(dl))

\* write(data, timeout_sec) up to its first call of _await_ready
write(d, timeout_sec) ==
    /\ pc = "idle"
    /\ timeout_sec # None => now + timeout_sec <= MaxTime
    /\ LET et == IF timeout_sec = None THEN None ELSE now + timeout_sec
       IN  WriteLoop(d, et, Len(d))
    /\ op' = "write"
    /\ n' = None
    /\ data' = d
    /\ timed' = (timeout_sec # None)
    /\ payload' = d
    /\ sent' = <<>>
    /\ CallReset
    /\ UNCHANGED <<osvars, selfvars, closes>>

\* the outcomes of os.write(fd, buf): an error, or the number of bytes
\* accepted
os_write(fd, buf) ==
    IF ~fdopen[fd] \/ fd # WrObj THEN {[err |-> "EBADF", num |-> 0]}
    ELSE IF ~OutReaderOpen
    THEN {[err |-> "EPIPE", num |-> 0], [err |-> "", num |-> 0]}
    ELSE IF Len(outbuf) >= Cap THEN {[err |-> "EAGAIN", num |-> 0]}
    ELSE {[err |-> "", num |-> k] : k \in 1 .. Min(Len(buf), Cap - Len(outbuf))}

\* one turn of write()'s loop from os.write() on, up to the next call of
\* _await_ready or the end of write()
OsWrite(cfail) ==
    /\ pc = "sys" /\ op = "write"
    /\ \E out \in os_write(write_fd, write_arg) :
         LET num_written == out.num
             accepted == SliceTo(write_arg, num_written)
             st == close_fds(cfail)
         IN  /\ staleIO' = (staleIO \/ ~fdopen[write_fd])
             /\ nsys' = nsys + 1
             /\ IF out.err # ""
                THEN /\ cfail = 0
                     /\ CallEnd(IF out.err = "EAGAIN"
                                THEN Raise("BlockingIOError")
                                ELSE Raise("OSError"))
                     /\ UNCHANGED <<outbuf, sent, fdopen, closes, zero, eio>>
                ELSE IF num_written = 0
                THEN /\ \A f \in Fd : st.closes[f] <= MaxCloses
                     /\ fdopen' = st.open
                     /\ closes' = st.closes
                     /\ eio' = st.eio
                     /\ zero' = TRUE
                     /\ CallEnd(IF st.raised THEN Raise("OSError")
                                ELSE Raise("TransportClosedError"))
                     /\ UNCHANGED <<outbuf, sent>>
                ELSE /\ cfail = 0
                     /\ outbuf' = outbuf \o accepted
                     /\ sent' = sent \o accepted
                     /\ data' = remaining(data, num_written)
                     /\ WriteLoop(remaining(data, num_written), end_time, data_len)
                     /\ UNCHANGED <<fdopen, closes, zero, eio>>
    /\ UNCHANGED <<topo, now, fdflags, inbuf, peer_open>>
    /\ UNCHANGED selfvars
    /\ UNCHANGED <<op, n, sel>>
    /\ UNCHANGED <<timed, payload, nwait>>

\* ------------------------------------------------------ the environment
\* the peer sends byte b
PeerSend(b) ==
    /\ topo # "loop" /\ peer_open
    /\ Len(inbuf) < Cap
    /\ inbuf' = Append(inbuf, b)
    /\ UNCHANGED <<topo, now, fdopen, fdflags, outbuf, peer_open>>
    /\ UNCHANGED <<selfvars, callvars, histvars>>

\* the peer reads one byte
PeerDrain ==
    /\ topo # "loop" /\ peer_open
    /\ outbuf # <<>>
    /\ outbuf' = Tail(outbuf)
    /\ UNCHANGED <<topo, now, fdopen, fdflags, inbuf, peer_open>>
    /\ UNCHANGED <<selfvars, callvars, histvars>>

\* the peer closes its descriptors
PeerClose ==
    /\ topo # "loop" /\ peer_open
    /\ peer_open' = FALSE
    /\ UNCHANGED <<topo, now, fdopen, fdflags, inbuf, outbuf>>
    /\ UNCHANGED <<selfvars, callvars, histvars>>

\* ------------------------------------------------------------ the clock
Tick ==
    /\ now < MaxTime
    /\ now' = now + 1
    /\ UNCHANGED <<topo, fdopen, fdflags, inbuf, outbuf, peer_open>>
    /\ UNCHANGED <<selfvars, callvars, histvars>>

Next ==
    \/ Construct(RdObj, WrObj)
    \/ open
    \/ \E cfail \in 0 .. 2 : close(cfail)
    \/ \E nn \in 1 .. MaxN, t \in Timeouts : read(nn, t)
    \/ \E d \in Payloads, t \in Timeouts : write(d, t)
    \/ AwaitReady
    \/ \E exc \in SUBSET {RdObj} : Select(exc)
    \/ \E cfail \in 0 .. 2 : OsRead(cfail)
    \/ \E cfail \in 0 .. 2 : OsWrite(cfail)
    \/ \E b \in Bytes : PeerSend(b)
    \/ PeerDrain
    \/ PeerClose
    \/ Tick

Spec == Init /\ [][Next]_vars

\* ------------------------------------------------------------ the types
TypeOK ==
    /\ now \in 0 .. MaxTime
    /\ Len(inbuf) <= Cap /\ Len(outbuf) <= Cap
    /\ \A f \in Fd : closes[f] \in 0 .. MaxCloses
    /\ pc \in {"new", "idle", "await", "select", "sys"}
    /\ op \in {"none", "init", "open", "close", "read", "write"}
    /\ nwait \in 0 .. MaxLen + 1 /\ nsys \in 0 .. MaxLen + 1
    /\ pc = "new" <=> read_fd = None
    /\ pc \in {"await", "select", "sys"} => op \in {"read", "write"}

\* the write loop is running
InWriteLoop == op = "write" /\ pc \in {"await", "sys"}
\* a read() or write() has ended
Ended(o) == op = o /\ pc = "idle"

\* ------------------------------------------------------------------ C1
\* C1 (as claimed): over any sequence of close(), read() and write() calls
\* an instance with two descriptors invokes os.close() at most once on each
\* descriptor it owns.
C1_CloseAtMostOnce == read_fd # write_fd => \A f \in Fd : closes[f] <= 1

\* ------------------------------------------------------------------ C2
\* C2 (as claimed): no read() or write() of an instance with two descriptors
\* issues a readiness wait, a read syscall or a write syscall on a
\* descriptor the instance has released.
C2_NoIoOnReleased == read_fd # write_fd => ~staleIO

\* ------------------------------------------------------------------ C3
\* C3: at every turn of the write loop the bytes the OS accepted so far, in
\* the order accepted, followed by the unsent buffer are the payload, and the
\* buffer handed to os.write() is the payload's suffix after those bytes.
C3_PartialWriteSuffix ==
    InWriteLoop =>
        /\ sent \o data = payload
        /\ write_arg = SliceFrom(payload, Len(sent))

\* a write loop that has had two partial writes and still has bytes to send
C3_Witness == InWriteLoop /\ pc = "sys" /\ nsys = 2 /\ Len(sent) = 2 /\ data # <<>>

\* ------------------------------------------------------------------ C4
\* C4: a write() of a payload of length L that has ended either raised or
\* returned L, and it returned only if the byte counts the OS accepted add up
\* to L.
C4_WriteReturnsFullLength ==
    Ended("write") =>
        /\ result.kind # "none"
        /\ result.kind = "ret" =>
              /\ result.val = Len(payload)
              /\ Len(sent) = Len(payload)

\* a write() of three bytes that returned after more than one os.write()
C4_Witness ==
    /\ Ended("write") /\ result.kind = "ret"
    /\ Len(payload) = 3 /\ nsys >= 2

\* a write() that raised after the OS had accepted a part of the payload
C4_WitnessPartial ==
    /\ Ended("write") /\ result.kind = "BlockingIOError"
    /\ sent # <<>> /\ Len(sent) < Len(payload)

\* ------------------------------------------------------------------ C5
\* the current call ended because its descriptor was not ready: no data or
\* space, and no exceptional condition reported by its wait
EndedNotReady ==
    /\ pc = "idle" /\ op \in {"read", "write"}
    /\ result.kind \in {"IoTimeoutError", "BlockingIOError"}
    /\ ~sel.ret

\* C5 (as claimed): a read() or write() with a timeout whose descriptor is
\* not ready ends with IoTimeoutError, both descriptors still held.
C5_TimeoutWhenNotReady ==
    (timed /\ EndedNotReady /\ closes = [f \in Fd |-> 0]) =>
        result.kind = "IoTimeoutError" /\ Held

\* ------------------------------------------------------------------ C6
\* C6 (as claimed): when the read or write syscall of a call returns zero
\* bytes (and no os.close() reports an I/O error) the call raises
\* TransportClosedError with both descriptors released; read() never returns
\* an empty byte sequence.
C6_ZeroMeansClosed ==
    /\ (pc = "idle" /\ op \in {"read", "write"} /\ zero /\ ~eio) =>
          result.kind = "TransportClosedError" /\ Released
    /\ (Ended("read") /\ result.kind = "ret") => result.val # <<>>

\* ------------------------------------------------------------------ C7
\* C7 (as claimed): in a write() with a timeout every os.write() is preceded
\* by a readiness wait of its own: when the k-th os.write() is about to be
\* issued, k waits have been made.
C7_WaitBeforeEveryWrite ==
    (op = "write" /\ timed /\ pc = "sys") => nwait = nsys + 1

\* ------------------------------------------------------------------ C8
\* C8 (as claimed): a write() of a payload larger than the buffer, to a peer
\* that still reads, does not fail before its deadline because the
\* descriptor is full for the moment.
C8_NoFailureOnFullBuffer ==
    [][(/\ op = "write" /\ pc = "sys" /\ Len(payload) > Cap
        /\ end_time # None /\ now < end_time
        /\ Held /\ OutReaderOpen) =>
           result'.kind # "BlockingIOError"]_vars

\* ------------------------------------------------------------------ C9
\* C9: a read(n, t) on held descriptors with at least one byte available does
\* not time out in its wait, and its os.read() step returns between 1 and n
\* bytes, the leading bytes of what was available, taken off the channel,
\* leaving both descriptors held.
C9_ReadReturnsLeadingBytes ==
    [][(op = "read" /\ Held /\ InChan # <<>>) =>
         /\ (pc = "select" /\ pc' # "select") => pc' = "sys"
         /\ (pc = "sys" /\ pc' = "idle") =>
               /\ result'.kind = "ret"
               /\ Len(result'.val) \in 1 .. n
               /\ result'.val = SliceTo(InChan, Len(result'.val))
               /\ InChan' = SliceFrom(InChan, Len(result'.val))
               /\ Held']_vars

\* a read(1, t) that waited and returned the first of two available bytes
C9_Witness ==
    /\ Ended("read") /\ result.kind = "ret" /\ timed /\ nwait = 1
    /\ n = 1 /\ Len(result.val) = 1 /\ Len(InChan) = 1 /\ Held

\* ----------------------------------------------------------------- C10
\* a round trip has ended: write(payload, t) returned on the empty pipe and
\* the read(n, t) that followed it on the other end, n >= len(payload), ended
\* (both with a timeout)
RoundTripDone == rt = "done" /\ n >= Len(payload) /\ Len(payload) <= Cap

\* C10 (as claimed): the read() of a round trip returns the payload as
\* written.
C10_RoundTripAnyPayload ==
    RoundTripDone => result.kind = "ret" /\ result.val = payload

\* C10 (amended): the read() of a round trip of a non-empty payload returns
\* the payload as written.
C10_RoundTrip ==
    (RoundTripDone /\ payload # <<>>) =>
        result.kind = "ret" /\ result.val = payload

\* a round trip of two bytes
C10_Witness == RoundTripDone /\ Len(payload) = 2 /\ result.kind = "ret"

\* ----------------------------------------------------------------- C11
\* the descriptor a failing construction was validating: the read descriptor
\* if it was in blocking mode, else the write descriptor
RaisingFd == IF "O_NONBLOCK" \notin fdflags[RdObj] THEN RdObj ELSE WrObj

\* C11 (as claimed): a construction that sets the non-blocking flag of a
\* descriptor (the OS honours the change) raises FdConfigurationError only
\* if that descriptor's flags do not have O_NONBLOCK afterwards.
C11_BlockingFdAccepted ==
    [][(pc = "new" /\ fdflags' # fdflags
        /\ result'.kind = "FdConfigurationError") =>
           "O_NONBLOCK" \notin fdflags'[RaisingFd]]_vars

\* ----------------------------------------------------------------- C12
\* both descriptors handed to the constructor are in non-blocking mode
BothNonBlocking ==
    "O_NONBLOCK" \in fdflags[RdObj] /\ "O_NONBLOCK" \in fdflags[WrObj]

\* C12: no step changes the flags of a descriptor that is in non-blocking
\* mode, and a construction from descriptors that are both in non-blocking
\* mode succeeds, holding them with their flags as they were.
C12_NonBlockingFdUnchanged ==
    [][/\ \A f \in Fd :
            "O_NONBLOCK" \in fdflags[f] => fdflags'[f] = fdflags[f]
       /\ (pc = "new" /\ BothNonBlocking
           /\ <<pc, op, result>>' # <<pc, op, result>>) =>
              /\ pc' = "idle" /\ result'.kind = "ret"
              /\ read_fd' = RdObj /\ write_fd' = WrObj
              /\ fdflags' = fdflags]_vars

\* a transport constructed from two distinct non-blocking descriptors
C12_Witness ==
    /\ op = "init" /\ pc = "idle" /\ result.kind = "ret"
    /\ read_fd # write_fd /\ BothNonBlocking

\* ----------------------------------------------------------------- C13
\* C13 (as claimed): the first close of a full-duplex transport, explicit or
\* on end-of-stream, calls os.close() on the descriptor once and raises no
\* OSError.
C13_FullDuplexClosedOnce ==
    [][(pc # "new" /\ read_fd = write_fd
        /\ closes[read_fd] = 0 /\ closes'[read_fd] # 0) =>
           closes'[read_fd] = 1 /\ result'.kind # "OSError"]_vars

\* ----------------------------------------------------------------- C14
\* C14: a step that ends in open() having been called last changes neither
\* the descriptors of the instance nor their state in the OS, and the step
\* in which open() is called changes nothing of the OS or the instance: a
\* released descriptor stays released.
C14_OpenIsNoOp ==
    [][op' = "open" =>
         /\ UNCHANGED <<fdopen, fdflags, read_fd, write_fd, closes>>
         /\ op # "open" => UNCHANGED <<osvars, selfvars, pc>>]_vars

\* open() was called on a transport whose descriptors are released
C14_Witness == op = "open" /\ Released /\ result.kind = "ret"

\* ----------------------------------------------------------------- C15
\* C15: a read(n, None) never enters select.select() and never raises
\* IoTimeoutError, and when it has ended it has issued its one os.read().
C15_NoDeadlineNoWait ==
    (op = "read" /\ ~timed) =>
        /\ pc # "select" /\ nwait = 0
        /\ result.kind # "IoTimeoutError"
        /\ pc = "idle" => nsys = 1

\* a read(n, None) that went to os.read() with no data ready
C15_Witness ==
    /\ Ended("read") /\ ~timed /\ nwait = 0 /\ nsys = 1
    /\ result.kind = "BlockingIOError" /\ Held

\* ----------------------------------------------------------------- C17
\* C17: a read() issues at most one select() and at most one os.read(); with
\* a timeout the os.read() comes after the select() has let it proceed, and
\* a read() that timed out has issued no os.read().
C17_OneWaitOneRead ==
    op = "read" =>
        /\ nwait <= 1 /\ nsys <= 1
        /\ (timed /\ (pc = "sys" \/ nsys = 1)) => nwait = 1
        /\ pc \in {"await", "select"} => nsys = 0
        /\ result.kind = "IoTimeoutError" => nsys = 0 /\ nwait = 1

\* a read() with a timeout that waited once and read once
C17_Witness ==
    /\ Ended("read") /\ timed /\ nwait = 1 /\ nsys = 1
    /\ result.kind = "ret"

\* a read() that timed out without an os.read()
C17_WitnessTimeout ==
    /\ Ended("read") /\ result.kind = "IoTimeoutError" /\ nsys = 0 /\ Held

\* ----------------------------------------------------------------- C16
\* C16: a read() or write() whose select() reported an exceptional condition
\* on a watched descriptor does not raise IoTimeoutError: it goes on to its
\* read or write syscall, and has issued it when it ends.
C16_ExceptionalProceeds ==
    (sel.ret /\ op \in {"read", "write"}) =>
        /\ pc \in {"sys", "idle"}
        /\ result.kind # "IoTimeoutError"
        /\ pc = "idle" => nsys = 1

\* a read() let through before its deadline by an exceptional condition
\* alone, no data being ready
C16_Witness ==
    /\ op = "read" /\ pc = "sys" /\ sel.ret /\ now < end_time
    /\ Held /\ ~Readable(read_fd)

\* a read() let through by an exceptional condition whose os.read() found
\* the end of the stream
C16_WitnessClosure ==
    /\ Ended("read") /\ sel.ret /\ nsys = 1
    /\ result.kind = "TransportClosedError" /\ Released

\* ----------------------------------------------------------------- C18
\* C18: the timeout handed to select() is the time left to the deadline, or
\* zero if the deadline has passed, never negative; and a select() with a
\* zero timeout on held descriptors lets the read() proceed if its
\* descriptor is ready or has an exceptional condition, and raises
\* IoTimeoutError otherwise.
C18_WaitTimeClamped ==
    [][/\ (pc = "await" /\ pc' = "select") =>
             /\ sel'.timeout = (IF end_time > now THEN end_time - now ELSE 0)
             /\ sel'.timeout >= 0
       /\ (op = "read" /\ pc = "select" /\ pc' # "select"
           /\ sel.timeout = 0 /\ Held) =>
             IF Readable(read_fd) \/ sel'.ret
             THEN pc' = "sys"
             ELSE pc' = "idle" /\ result'.kind = "IoTimeoutError"]_vars

\* a select() entered after the deadline had passed, with a zero timeout
C18_Witness ==
    /\ op = "read" /\ pc = "select" /\ end_time < now
    /\ sel.timeout = 0 /\ nwait = 1

\* a poll with a zero timeout that found nothing ready
C18_WitnessPoll ==
    /\ Ended("read") /\ result.kind = "IoTimeoutError"
    /\ sel.timeout = 0 /\ nwait = 1 /\ Held

\* ----------------------------------------------------------------- C19
\* C19 (as claimed): a close of two held descriptors, explicit or on
\* end-of-stream, leaves both released, each by one os.close(), also when
\* an os.close() fails.
C19_BothReleasedOnEveryPath ==
    [][(pc # "new" /\ read_fd # write_fd /\ Held /\ closes' # closes) =>
          /\ Released'
          /\ \A f \in Fd : closes'[f] <= closes[f] + 1]_vars

\* ----------------------------------------------------------------- C20
\* C20: a turn of the write loop ends the call (it raises, or returns with
\* nothing left) or leaves a strictly shorter unsent buffer; a write() of a
\* payload of length L has issued at most L os.write() calls, with at most
\* L minus that many bytes left, and a write() of the empty payload returns
\* 0 at once, with no os.write().
C20_WriteLoopTerminates ==
    [][/\ (op = "write" /\ pc = "sys" /\ pc' # "sys") =>
             \/ pc' = "idle" /\ result'.kind \notin {"none", "ret"}
             \/ pc' = "idle" /\ result'.kind = "ret" /\ data' = <<>>
             \/ pc' = "await" /\ Len(data') < Len(data) /\ data' # <<>>
       /\ op' = "write" =>
             /\ nsys' <= Len(payload')
             /\ InWriteLoop' => Len(data') <= Len(payload') - nsys'
             /\ payload' = <<>> =>
                   /\ pc' = "idle" /\ nsys' = 0
                   /\ result'.kind = "ret" /\ result'.val = 0]_vars

\* a write() of three bytes that took three os.write() calls
C20_Witness ==
    /\ Ended("write") /\ result.kind = "ret"
    /\ Len(payload) = 3 /\ nsys = 3

\* a write() of the empty payload
C20_WitnessEmpty ==
    /\ Ended("write") /\ payload = <<>> /\ nsys = 0
    /\ result.kind = "ret" /\ result.val = 0
====
